---- MODULE Spec2Model ----
(***************************************************************************)
(* A model of the Emplode symbol/scope table (Symbol_Scope.hpp) and of the *)
(* AST evaluation protocol (AST.hpp).                                      *)
(*                                                                         *)
(* Symbols and AST nodes live in two arenas indexed by identities that are *)
(* handed out once and never reused: an identity stands for one object     *)
(* (one emp::NewPtr), whatever address the allocator gives it.             *)
(***************************************************************************)
EXTENDS Integers, Sequences, FiniteSets, TLC

VARIABLES sym, table, nextSym, nodes, stack, hostEvents, log, err, last, runs

vars == <<sym, table, nextSym, nodes, stack, hostEvents, log, err, last, runs>>

(***************************************************************************)
(* Bounds of the model.                                                    *)
(***************************************************************************)
MaxSyms == 4
MaxNodes == 5
MaxRuns == 2

Null == 0
Names == {"a", "b"}
FunConsts == {7}

NoErr == "none"

(***************************************************************************)
(* Symbols.                                                                *)
(***************************************************************************)
NumVal(n) == [type |-> "num", num |-> n, str |-> <<>>, fn |-> "none"]
StrVal(s) == [type |-> "str", num |-> 0, str |-> s, fn |-> "none"]
FunVal(f, k) == [type |-> "fun", num |-> k, str |-> <<>>, fn |-> f]
ScopeVal == [type |-> "scope", num |-> 0, str |-> <<>>, fn |-> "none"]

Symbol(name, val, scope) ==
  [name |-> name, val |-> val, scope |-> scope,
   builtin |-> FALSE, temp |-> FALSE, live |-> TRUE]

SetBuiltin(s) == [s EXCEPT !.builtin = TRUE]

EmptyTable == [n \in {} |-> Null]

Has(t, name) == name \in DOMAIN t

Find(t, name, dflt) == IF name \in DOMAIN t THEN t[name] ELSE dflt

Put(t, name, id) == [k \in DOMAIN t \cup {name} |-> IF k = name THEN id ELSE t[k]]

IsScope(sm, id) == id \in DOMAIN sm /\ sm[id].val.type = "scope"

Scopes == {id \in DOMAIN sym : IsScope(sym, id)}

NoLast == [op |-> "none", scope |-> Null, name |-> "", scan |-> FALSE, result |-> Null]

(***************************************************************************)
(* Symbol_Scope::Add: construct the entry, assert the name is unused,      *)
(* insert it.  A failed emp_assert aborts the program.                     *)
(***************************************************************************)
NewTable(id, entry) ==
  IF entry.val.type = "scope" THEN (id :> EmptyTable) ELSE EmptyTable

AddNoAssert(s, name, entry, op) ==
  /\ sym' = sym @@ (nextSym :> entry)
  /\ nextSym' = nextSym + 1
  /\ table' = [table EXCEPT ![s] = Put(table[s], name, nextSym)] @@ NewTable(nextSym, entry)
  /\ last' = [NoLast EXCEPT !.op = op, !.scope = s, !.name = name, !.result = nextSym]
  /\ UNCHANGED <<err, nodes, stack, hostEvents, log, runs>>

Add(s, name, entry, op) ==
  /\ sym' = sym @@ (nextSym :> entry)
  /\ nextSym' = nextSym + 1
  /\ IF Has(table[s], name)
       THEN /\ err' = "assert"
            /\ table' = table
            /\ last' = [NoLast EXCEPT !.op = op, !.scope = s, !.name = name]
       ELSE /\ err' = err
            /\ table' = [table EXCEPT ![s] = Put(table[s], name, nextSym)]
                          @@ NewTable(nextSym, entry)
            /\ last' = [NoLast EXCEPT !.op = op, !.scope = s, !.name = name,
                                      !.result = nextSym]
  /\ UNCHANGED <<nodes, stack, hostEvents, log, runs>>

AddBuiltin(s, name, entry, op) == Add(s, name, SetBuiltin(entry), op)

CanDeclare == err = NoErr /\ nextSym <= MaxSyms

AddStringVar ==
  \E s \in Scopes, name \in Names :
    /\ CanDeclare
    /\ Add(s, name, Symbol(name, StrVal(<<>>), s), "AddStringVar")

AddValueVar ==
  \E s \in Scopes, name \in Names :
    /\ CanDeclare
    /\ Add(s, name, Symbol(name, NumVal(0), s), "AddValueVar")

AddScope ==
  \E s \in Scopes, name \in Names :
    /\ CanDeclare
    /\ Add(s, name, Symbol(name, ScopeVal, s), "AddScope")

AddFunction ==
  \E s \in Scopes, name \in Names, k \in FunConsts :
    /\ CanDeclare
    /\ Add(s, name, Symbol(name, FunVal("const", k), s), "AddFunction")

AddBuiltinFunction ==
  \E s \in Scopes, name \in Names, k \in FunConsts :
    /\ CanDeclare
    /\ AddBuiltin(s, name, Symbol(name, FunVal("const", k), s), "AddBuiltinFunction")

LinkVar ==
  \E s \in Scopes, name \in Names, is_builtin \in BOOLEAN :
    /\ CanDeclare
    /\ IF is_builtin
         THEN AddBuiltin(s, name, Symbol(name, NumVal(0), s), "LinkVar")
         ELSE Add(s, name, Symbol(name, NumVal(0), s), "LinkVar")

LinkFuns ==
  \E s \in Scopes, name \in Names, is_builtin \in BOOLEAN :
    /\ CanDeclare
    /\ IF is_builtin
         THEN AddBuiltin(s, name, Symbol(name, NumVal(0), s), "LinkFuns")
         ELSE Add(s, name, Symbol(name, NumVal(0), s), "LinkFuns")

(***************************************************************************)
(* Symbol_Scope::GetSymbol and Symbol_Scope::LookupSymbol.                 *)
(***************************************************************************)
GetSymbol(tb, s, name) == Find(tb[s], name, Null)

LookupSymbolOneLevel(sm, tb, s, name, scan_scopes) ==
  IF ~Has(tb[s], name)
    THEN IF sm[s].scope = Null \/ ~scan_scopes
           THEN Null
           ELSE Find(tb[sm[s].scope], name, Null)
    ELSE tb[s][name]

RECURSIVE LookupSymbol(_, _, _, _, _)
LookupSymbol(sm, tb, s, name, scan_scopes) ==
  IF ~Has(tb[s], name)
    THEN IF sm[s].scope = Null \/ ~scan_scopes
           THEN Null
           ELSE LookupSymbol(sm, tb, sm[s].scope, name, TRUE)
    ELSE tb[s][name]

DoGetSymbol ==
  \E s \in Scopes, name \in Names :
    /\ err = NoErr
    /\ last' = [NoLast EXCEPT !.op = "GetSymbol", !.scope = s, !.name = name,
                              !.result = GetSymbol(table, s, name)]
    /\ UNCHANGED <<sym, table, nextSym, nodes, stack, hostEvents, log, err, runs>>

DoLookupSymbol ==
  \E s \in Scopes, name \in Names, scan_scopes \in BOOLEAN :
    /\ err = NoErr
    /\ last' = [NoLast EXCEPT !.op = "LookupSymbol", !.scope = s, !.name = name,
                              !.scan = scan_scopes,
                              !.result = LookupSymbol(sym, table, s, name, scan_scopes)]
    /\ UNCHANGED <<sym, table, nextSym, nodes, stack, hostEvents, log, err, runs>>

(***************************************************************************)
(* Symbol_Scope::Clone: a new Symbol_Scope made from this one by the copy   *)
(* constructor.  The base part Symbol(in) copies the Symbol fields.  The   *)
(* member symbol_table has no initializer in the constructor, so it is     *)
(* default-constructed (empty), and the loop of line 65 ranges over that   *)
(* member of the object under construction, not over in.symbol_table.      *)
(***************************************************************************)
CopyConstruct(tb, in, new) ==
  LET symbol_table == EmptyTable
  IN  [name \in DOMAIN symbol_table |-> symbol_table[name]]

Clone ==
  \E s \in Scopes :
    /\ err = NoErr
    /\ nextSym <= MaxSyms
    /\ sym' = sym @@ (nextSym :> sym[s])
    /\ table' = table @@ (nextSym :> CopyConstruct(table, s, nextSym))
    /\ nextSym' = nextSym + 1
    /\ last' = [NoLast EXCEPT !.op = "Clone", !.scope = s, !.result = nextSym]
    /\ UNCHANGED <<nodes, stack, hostEvents, log, err, runs>>

(***************************************************************************)
(* The declaration phase: one root scope, then any declarations, lookups   *)
(* and clones.                                                             *)
(***************************************************************************)
ScopeInit ==
  /\ sym = (1 :> Symbol("root", ScopeVal, Null))
  /\ table = (1 :> EmptyTable)
  /\ nextSym = 2
  /\ nodes = <<>>
  /\ stack = <<>>
  /\ hostEvents = <<>>
  /\ log = <<>>
  /\ err = NoErr
  /\ last = NoLast
  /\ runs = 0

ScopeNext ==
  \/ AddStringVar
  \/ AddValueVar
  \/ AddScope
  \/ AddFunction
  \/ AddBuiltinFunction
  \/ LinkVar
  \/ LinkFuns
  \/ DoGetSymbol
  \/ DoLookupSymbol
  \/ Clone

ScopeSpec == ScopeInit /\ [][ScopeNext]_vars

(***************************************************************************)
(* Values and coercion (Symbol::AsDouble, Symbol::AsString).  A string is  *)
(* a sequence of one-character strings.  A number coerces to its decimal   *)
(* text, a string coerces to a number when it is a decimal numeral, and    *)
(* anything else is a type mismatch.                                       *)
(***************************************************************************)
BadVal == [type |-> "bad", num |-> 0, str |-> <<>>, fn |-> "none"]

Digits == <<"0", "1", "2", "3", "4", "5", "6", "7", "8", "9">>

DigitSet == {Digits[i] : i \in DOMAIN Digits}

DigitOf(c) == (CHOOSE i \in DOMAIN Digits : Digits[i] = c) - 1

RECURSIVE NatToStr(_)
NatToStr(n) ==
  IF n < 10 THEN <<Digits[n + 1]>>
            ELSE NatToStr(n \div 10) \o <<Digits[(n % 10) + 1]>>

ToStr(n) == IF n < 0 THEN <<"-">> \o NatToStr(0 - n) ELSE NatToStr(n)

RECURSIVE StrToNat(_)
StrToNat(str) ==
  IF str = <<>> THEN 0
  ELSE StrToNat(SubSeq(str, 1, Len(str) - 1)) * 10 + DigitOf(str[Len(str)])

IsNumeral(str) == str # <<>> /\ \A i \in DOMAIN str : str[i] \in DigitSet

Coerce(val, type) ==
  CASE type = "num" /\ val.type = "num" -> val
    [] type = "num" /\ val.type = "str" ->
         IF IsNumeral(val.str) THEN NumVal(StrToNat(val.str)) ELSE BadVal
    [] type = "str" /\ val.type = "str" -> val
    [] type = "str" /\ val.type = "num" -> StrVal(ToStr(val.num))
    [] OTHER -> BadVal

(***************************************************************************)
(* The closures bound to operator nodes and to functions.                  *)
(***************************************************************************)
Fun1(fun, v) == NumVal(0 - v.num)

ArgType(fun) == IF fun = "cat" THEN "str" ELSE "num"

Fun2(fun, v1, v2) ==
  IF fun = "cat" THEN StrVal(v1.str \o v2.str) ELSE NumVal(v1.num + v2.num)

(***************************************************************************)
(* AST nodes.                                                              *)
(***************************************************************************)
Node(kind, fun, children, s, own) ==
  [kind |-> kind, fun |-> fun, children |-> children, sym |-> s, own |-> own]

Root == 1

HasValue(n) == nodes[n].kind \notin {"Block", "Event"}

(***************************************************************************)
(* The state threaded through one evaluation: the Symbol arena, the next   *)
(* identity, the host's registered events, the first fatal error, the      *)
(* Symbol returned by the last Process, the last coerced value, and the    *)
(* trace of what the evaluation did.                                       *)
(***************************************************************************)
Event(ev, n, s, arg, val, temp) ==
  [ev |-> ev, node |-> n, s |-> s, arg |-> arg, val |-> val, temp |-> temp]

Emit(st, e) == [st EXCEPT !.log = Append(@, e)]

Fail(st, e) == IF st.err # NoErr THEN st ELSE [st EXCEPT !.err = e]

\* Any access through a Symbol pointer: a null or released pointer is
\* undefined behaviour, recorded as the error "ub".
Touch(st, s) ==
  IF st.err # NoErr THEN st
  ELSE IF s = Null \/ ~st.sym[s].live THEN Fail(st, "ub") ELSE st

\* emp::Ptr::Delete.
Delete(n, st, s) ==
  LET t == Touch(st, s)
  IN  IF t.err # NoErr THEN t
      ELSE Emit([t EXCEPT !.sym[s].live = FALSE],
                Event("release", n, s, <<>>, t.sym[s].val, t.sym[s].temp))

\* if (s->IsTemporary()) s.Delete();
DeleteIfTemporary(n, st, s) ==
  LET t == Touch(st, s)
  IN  IF t.err # NoErr THEN t
      ELSE IF t.sym[s].temp THEN Delete(n, t, s) ELSE t

\* s->As<T>(): the coerced value is left in field v.
As(n, st, s, type) ==
  LET t == Touch(st, s)
  IN  IF t.err # NoErr THEN t
      ELSE LET v == Coerce(t.sym[s].val, type)
           IN  IF v = BadVal THEN Fail(t, "TypeMismatch")
               ELSE Emit([t EXCEPT !.v = v], Event("read", n, s, <<>>, v, t.sym[s].temp))

\* EmplodeTools::MakeTempSymbol: a fresh temporary Symbol holding val.
MakeTempSymbol(n, st, val) ==
  IF st.err # NoErr THEN st
  ELSE Emit([st EXCEPT !.sym = @ @@ (st.next :> [Symbol("", val, Null) EXCEPT !.temp = TRUE]),
                       !.next = @ + 1,
                       !.ret = st.next],
            Event("alloc", n, st.next, <<>>, val, TRUE))

\* Symbol::CopyValue: overwrite dst's value from src's, in dst's own type.
CopyValue(n, st, dst, src) ==
  LET t == Touch(Touch(st, dst), src)
  IN  IF t.err # NoErr THEN t
      ELSE LET v == Coerce(t.sym[src].val, t.sym[dst].val.type)
           IN  IF v = BadVal THEN Fail(t, "TypeMismatch")
               ELSE Emit([t EXCEPT !.sym[dst].val = v],
                         Event("copy", n, dst, <<src>>, v, t.sym[dst].temp))

\* Symbol_Function::Call: apply the bound closure to the coerced arguments
\* and return the result as a fresh temporary.
Call(n, st, fun, args) ==
  LET t == Touch(st, fun)
  IN  IF t.err # NoErr THEN t
      ELSE IF t.sym[fun].val.type # "fun" THEN Fail(t, "NotCallable")
      ELSE LET f == t.sym[fun].val
               c == Emit(t, Event("call", n, fun, args, f, t.sym[fun].temp))
           IN  CASE f.fn = "const" /\ Len(args) = 0 ->
                      MakeTempSymbol(n, c, NumVal(f.num))
                 [] f.fn = "sub" /\ Len(args) = 2 ->
                      LET r1 == As(n, c, args[1], "num")
                          r2 == As(n, r1, args[2], "num")
                      IN  IF r2.err # NoErr THEN r2
                          ELSE MakeTempSymbol(n, r2, NumVal(r1.v.num - r2.v.num))
                 [] OTHER -> Fail(c, "arity")

(***************************************************************************)
(* Process.  The body of each Process method is the list of its           *)
(* statements, run in order by Run; the local variables of a call live in  *)
(* a frame that Process pushes on entry and pops on return.                *)
(***************************************************************************)
NoLocals == [name \in {} |-> Null]

Frame == [s |-> NoLocals, v |-> NoLocals, args |-> <<>>]

Local(st, name) == st.frames[Len(st.frames)].s[name]

Value(st, name) == st.frames[Len(st.frames)].v[name]

Args(st) == st.frames[Len(st.frames)].args

\* name = <the Symbol just returned>;
SetLocal(st, name) ==
  IF st.err # NoErr THEN st
  ELSE [st EXCEPT !.frames[Len(st.frames)].s = (name :> st.ret) @@ @]

\* name = val;
SetValue(st, name, val) ==
  IF st.err # NoErr THEN st
  ELSE [st EXCEPT !.frames[Len(st.frames)].v = (name :> val) @@ @]

\* args.push_back(<the Symbol just returned>);
PushArg(st) ==
  IF st.err # NoErr THEN st
  ELSE [st EXCEPT !.frames[Len(st.frames)].args = Append(@, st.ret)]

Stmt(op, i, a, b, c, type) ==
  [op |-> op, i |-> i, a |-> a, b |-> b, c |-> c, type |-> type]

\* a = children[i]->Process();
ProcessInto(i, a) == Stmt("process", i, a, "", "", "")

\* b = a->As<type>();
AsInto(a, type, b) == Stmt("as", 0, a, b, "", type)

\* b = fun(a);  c = fun(a, b);
Apply1(a, b) == Stmt("fun1", 0, a, b, "", "")

Apply2(a, b, c) == Stmt("fun2", 0, a, b, c, "")

\* if (a->IsTemporary()) a.Delete();
DeleteIfTemp(a) == Stmt("delete_if_temporary", 0, a, "", "", "")

\* return EmplodeTools::MakeTempSymbol(a);
ReturnTemp(a) == Stmt("make_temp", 0, a, "", "", "")

\* a->CopyValue(*b);
CopyInto(a, b) == Stmt("copy", 0, a, b, "", "")

\* return a;  return nullptr;
Return(a) == Stmt("return", 0, a, "", "", "")

ReturnNull == Stmt("return_null", 0, "", "", "", "")

\* for (i..) args.push_back(children[i]->Process());
CollectFrom(i) == Stmt("collect", i, "", "", "", "")

\* b = a->Call(args);
CallInto(a, b) == Stmt("call", 0, a, b, "", "")

\* for (auto arg : args) if (arg->IsTemporary()) arg.Delete();
DeleteTempArgs == Stmt("delete_args", 0, "", "", "", "")

\* setup_event(children[0], arg_entries);
Setup == Stmt("setup", 0, "", "", "", "")

\* for (auto node : children) { out = node->Process(); if (out && ...) }
ForEachChild == Stmt("block", 0, "", "", "", "")

RECURSIVE Process(_, _)

\* children[i]->Process()
ProcessChild(n, i, st) == Process(nodes[n].children[i], st)

\* if (out && out->IsTemporary()) out.Delete();
Discard(n, st) ==
  IF st.err # NoErr \/ st.ret = Null THEN st
  ELSE DeleteIfTemporary(n, st, st.ret)

RECURSIVE BlockLoop(_, _, _)
BlockLoop(n, st, i) ==
  IF st.err # NoErr \/ i > Len(nodes[n].children) THEN st
  ELSE BlockLoop(n, Discard(n, ProcessChild(n, i, st)), i + 1)

RECURSIVE CollectArgs(_, _, _)
CollectArgs(n, st, i) ==
  IF st.err # NoErr \/ i > Len(nodes[n].children) THEN st
  ELSE CollectArgs(n, PushArg(ProcessChild(n, i, st)), i + 1)

RECURSIVE DeleteTemporaries(_, _, _, _)
DeleteTemporaries(n, st, args, i) ==
  IF st.err # NoErr \/ i > Len(args) THEN st
  ELSE DeleteTemporaries(n, DeleteIfTemporary(n, st, args[i]), args, i + 1)

\* The host's setup closure: it keeps the action node and the arguments.
SetupEvent(n, st, action, arg_entries) ==
  IF st.err # NoErr THEN st
  ELSE Emit([st EXCEPT !.events = Append(@, [action |-> action, args |-> arg_entries])],
            Event("setup", n, action, arg_entries, BadVal, FALSE))

\* One statement.
Exec(n, k, st) ==
  IF st.err # NoErr THEN st
  ELSE CASE k.op = "process" -> SetLocal(ProcessChild(n, k.i, st), k.a)
         [] k.op = "as" -> SetValue(As(n, st, Local(st, k.a), k.type), k.b,
                                    As(n, st, Local(st, k.a), k.type).v)
         [] k.op = "fun1" -> SetValue(st, k.b, Fun1(nodes[n].fun, Value(st, k.a)))
         [] k.op = "fun2" ->
              SetValue(st, k.c, Fun2(nodes[n].fun, Value(st, k.a), Value(st, k.b)))
         [] k.op = "delete_if_temporary" -> DeleteIfTemporary(n, st, Local(st, k.a))
         [] k.op = "make_temp" -> MakeTempSymbol(n, st, Value(st, k.a))
         [] k.op = "copy" -> CopyValue(n, st, Local(st, k.a), Local(st, k.b))
         [] k.op = "return" -> [st EXCEPT !.ret = Local(st, k.a)]
         [] k.op = "return_null" -> [st EXCEPT !.ret = Null]
         [] k.op = "collect" -> CollectArgs(n, st, k.i)
         [] k.op = "call" -> SetLocal(Call(n, st, Local(st, k.a), Args(st)), k.b)
         [] k.op = "delete_args" -> DeleteTemporaries(n, st, Args(st), 1)
         [] k.op = "setup" -> SetupEvent(n, st, nodes[n].children[1], Args(st))
         [] k.op = "block" -> BlockLoop(n, st, 1)

RECURSIVE Run(_, _, _)
Run(n, stmts, st) ==
  IF stmts = <<>> THEN st ELSE Run(n, Tail(stmts), Exec(n, Head(stmts), st))

\* emp_assert(children.size() ...), then the statements.
Body(n, sizes, stmts, st) ==
  IF Len(nodes[n].children) \notin sizes THEN Fail(st, "assert") ELSE Run(n, stmts, st)

AnySize == 0..Len(nodes)

\* ASTNode_Leaf::Process
ProcessLeaf(n, st) == [st EXCEPT !.ret = nodes[n].sym]

ProcessBlockKeepsResults(n, st) ==
  Body(n, AnySize, <<CollectFrom(1), ReturnNull>>, st)

\* ASTNode_Block::Process
ProcessBlock(n, st) ==
  Body(n, AnySize, <<ForEachChild, ReturnNull>>, st)

ProcessMath1DeletesInput(n, st) ==
  Body(n, {1},
       <<ProcessInto(1, "input_symbol"),
         DeleteIfTemp("input_symbol"),
         AsInto("input_symbol", "num", "input_value"),
         Apply1("input_value", "output_value"),
         ReturnTemp("output_value")>>, st)

\* ASTNode_Math1::Process
ProcessMath1(n, st) ==
  Body(n, {1},
       <<ProcessInto(1, "input_symbol"),
         AsInto("input_symbol", "num", "input_value"),
         Apply1("input_value", "output_value"),
         DeleteIfTemp("input_symbol"),
         ReturnTemp("output_value")>>, st)

ProcessOp2OverwritesLeft(n, st) ==
  Body(n, {2},
       <<ProcessInto(1, "in1"),
         ProcessInto(2, "in2"),
         CopyInto("in1", "in2"),
         AsInto("in1", ArgType(nodes[n].fun), "arg1"),
         AsInto("in2", ArgType(nodes[n].fun), "arg2"),
         Apply2("arg1", "arg2", "out_val"),
         DeleteIfTemp("in1"),
         DeleteIfTemp("in2"),
         ReturnTemp("out_val")>>, st)

ProcessOp2RightFirst(n, st) ==
  Body(n, {2},
       <<ProcessInto(2, "in2"),
         ProcessInto(1, "in1"),
         AsInto("in1", ArgType(nodes[n].fun), "arg1"),
         AsInto("in2", ArgType(nodes[n].fun), "arg2"),
         Apply2("arg1", "arg2", "out_val"),
         DeleteIfTemp("in1"),
         DeleteIfTemp("in2"),
         ReturnTemp("out_val")>>, st)

\* ASTNode_Op2::Process
ProcessOp2(n, st) ==
  Body(n, {2},
       <<ProcessInto(1, "in1"),
         ProcessInto(2, "in2"),
         AsInto("in1", ArgType(nodes[n].fun), "arg1"),
         AsInto("in2", ArgType(nodes[n].fun), "arg2"),
         Apply2("arg1", "arg2", "out_val"),
         DeleteIfTemp("in1"),
         DeleteIfTemp("in2"),
         ReturnTemp("out_val")>>, st)

ProcessAssignReturnsRhs(n, st) ==
  Body(n, {2},
       <<ProcessInto(1, "lhs"),
         ProcessInto(2, "rhs"),
         CopyInto("lhs", "rhs"),
         Return("rhs")>>, st)

\* ASTNode_Assign::Process
ProcessAssign(n, st) ==
  Body(n, {2},
       <<ProcessInto(1, "lhs"),
         ProcessInto(2, "rhs"),
         CopyInto("lhs", "rhs"),
         DeleteIfTemp("rhs"),
         Return("lhs")>>, st)

ProcessCallReturnsCallee(n, st) ==
  Body(n, AnySize \ {0},
       <<ProcessInto(1, "fun"),
         CollectFrom(2),
         CallInto("fun", "result"),
         DeleteTempArgs,
         Return("fun")>>, st)

\* ASTNode_Call::Process
ProcessCall(n, st) ==
  Body(n, AnySize \ {0},
       <<ProcessInto(1, "fun"),
         CollectFrom(2),
         CallInto("fun", "result"),
         DeleteTempArgs,
         Return("result")>>, st)

ProcessEventDeletesArgs(n, st) ==
  Body(n, AnySize \ {0},
       <<CollectFrom(2),
         Setup,
         DeleteTempArgs,
         ReturnNull>>, st)

ProcessEventRunsAction(n, st) ==
  Body(n, AnySize \ {0},
       <<CollectFrom(1),
         Setup,
         ReturnNull>>, st)

\* ASTNode_Event::Process
ProcessEvent(n, st) ==
  Body(n, AnySize \ {0},
       <<CollectFrom(2),
         Setup,
         ReturnNull>>, st)

\* The call of node->Process(): its entry, with a new frame for its locals.
Enter(n, st) ==
  Emit([st EXCEPT !.frames = Append(@, Frame)],
       Event("enter", n, Null, <<>>, BadVal, FALSE))

\* Virtual dispatch.
Dispatch(n, st) ==
  CASE nodes[n].kind = "Leaf" -> ProcessLeaf(n, st)
    [] nodes[n].kind = "Block" -> ProcessBlock(n, st)
    [] nodes[n].kind = "Math1" -> ProcessMath1(n, st)
    [] nodes[n].kind = "Op2" -> ProcessOp2(n, st)
    [] nodes[n].kind = "Assign" -> ProcessAssign(n, st)
    [] nodes[n].kind = "Call" -> ProcessCall(n, st)
    [] nodes[n].kind = "Event" -> ProcessEvent(n, st)

\* The return of node->Process(): the frame goes, the result stays in ret.
Leave(n, st) ==
  IF st.err # NoErr THEN st
  ELSE Emit([st EXCEPT !.frames = SubSeq(@, 1, Len(@) - 1)],
            IF st.ret = Null
              THEN Event("exit", n, Null, <<>>, BadVal, FALSE)
              ELSE Event("exit", n, st.ret, <<>>, st.sym[st.ret].val, st.sym[st.ret].temp))

Process(n, st) ==
  IF st.err # NoErr THEN st ELSE Leave(n, Dispatch(n, Enter(n, st)))

(***************************************************************************)
(* Building the tree.  The parser builds bottom-up and left to right: the  *)
(* nodes that have no parent yet wait on a stack, and a constructor of an  *)
(* internal node takes its children off the top of it.                     *)
(***************************************************************************)
Literals == {NumVal(3), NumVal(4), StrVal(<<"a">>), StrVal(<<"b">>)}

Op2Funs == {"add", "cat"}

Building == err = NoErr /\ nodes # <<>> /\ runs = 0

CanMake == Building /\ Len(nodes) < MaxNodes

Top(k) == SubSeq(stack, Len(stack) - k + 1, Len(stack))

Pop(k) == SubSeq(stack, 1, Len(stack) - k)

ASTNode_LeafKeepsTemporary(sm, s) ==
  [node |-> Node("Leaf", "", <<>>, s, sm[s].temp),
   sym |-> sm]

\* ASTNode_Leaf::ASTNode_Leaf: the node and the Symbol arena after it.
ASTNode_Leaf(sm, s) ==
  [node |-> Node("Leaf", "", <<>>, s, sm[s].temp),
   sym |-> [sm EXCEPT ![s].temp = FALSE]]

Push(node) ==
  /\ nodes' = Append(nodes, node)
  /\ stack' = Append(stack, Len(nodes) + 1)

\* A leaf for a name, or a further leaf for a Symbol some leaf already wraps.
MakeLeaf ==
  \E s \in DOMAIN sym :
    /\ CanMake
    /\ sym[s].live
    /\ sym[s].val.type # "scope"
    /\ LET c == ASTNode_Leaf(sym, s)
       IN  /\ Push(c.node)
           /\ sym' = c.sym
    /\ UNCHANGED <<table, nextSym, hostEvents, log, err, last, runs>>

\* A leaf for a literal: the parser makes a temporary Symbol and wraps it.
MakeLiteralLeaf ==
  \E val \in Literals :
    /\ CanMake
    /\ LET sm == sym @@ (nextSym :> [Symbol("", val, Null) EXCEPT !.temp = TRUE])
           c == ASTNode_Leaf(sm, nextSym)
       IN  /\ Push(c.node)
           /\ sym' = c.sym
    /\ nextSym' = nextSym + 1
    /\ UNCHANGED <<table, hostEvents, log, err, last, runs>>

MakeInternal(kind, fun, k) ==
  /\ nodes' = Append(nodes, Node(kind, fun, Top(k), Null, FALSE))
  /\ stack' = Append(Pop(k), Len(nodes) + 1)
  /\ UNCHANGED <<sym, table, nextSym, hostEvents, log, err, last, runs>>

IsCallee(n) == nodes[n].kind = "Leaf" /\ sym[nodes[n].sym].val.type = "fun"

\* What the parser accepts as an operand, a right side or an argument.
IsOperand(n) == HasValue(n) /\ ~IsCallee(n)

MakeMath1 ==
  /\ CanMake
  /\ Len(stack) >= 1
  /\ IsOperand(stack[Len(stack)])
  /\ MakeInternal("Math1", "neg", 1)

MakeOp2 ==
  \E fun \in Op2Funs :
    /\ CanMake
    /\ Len(stack) >= 2
    /\ \A i \in 1..2 : IsOperand(Top(2)[i])
    /\ MakeInternal("Op2", fun, 2)

\* ASTNode_Assign::ASTNode_Assign.  The left side is an lvalue: a leaf of a
\* variable, or another assignment.
IsLvalue(n) ==
  \/ nodes[n].kind = "Leaf" /\ sym[nodes[n].sym].val.type \in {"num", "str"}
                            /\ sym[nodes[n].sym].name # ""
  \/ nodes[n].kind = "Assign"

MakeAssign ==
  /\ CanMake
  /\ Len(stack) >= 2
  /\ IsLvalue(Top(2)[1])
  /\ IsOperand(Top(2)[2])
  /\ MakeInternal("Assign", "", 2)

\* ASTNode_Call::ASTNode_Call: the callee, then the arguments.
MakeCall ==
  \E k \in 1..3 :
    /\ CanMake
    /\ Len(stack) >= k
    /\ IsCallee(Top(k)[1])
    /\ \A i \in 2..k : IsOperand(Top(k)[i])
    /\ MakeInternal("Call", "", k)

\* ASTNode_Event::ASTNode_Event: the action, then the arguments.
MakeEvent ==
  \E k \in 1..3 :
    /\ CanMake
    /\ Len(stack) >= k
    /\ \A i \in 2..k : IsOperand(Top(k)[i])
    /\ MakeInternal("Event", "OnUpdate", k)

\* ASTNode_Internal::AddChild on the root block.
AddChild ==
  /\ Building
  /\ Len(stack) = 1
  /\ nodes' = [nodes EXCEPT ![Root].children = Append(@, stack[1])]
  /\ stack' = <<>>
  /\ UNCHANGED <<sym, table, nextSym, hostEvents, log, err, last, runs>>

(***************************************************************************)
(* Evaluating the tree, and tearing it down.                               *)
(***************************************************************************)
Start ==
  [sym |-> sym, next |-> nextSym, events |-> hostEvents, err |-> NoErr,
   ret |-> Null, v |-> BadVal, frames |-> <<>>, log |-> <<>>]

ProcessRoot ==
  /\ err = NoErr
  /\ nodes # <<>>
  /\ stack = <<>>
  /\ runs < MaxRuns
  /\ LET r == Process(Root, Start)
     IN  /\ sym' = r.sym
         /\ nextSym' = r.next
         /\ hostEvents' = r.events
         /\ err' = r.err
         /\ log' = r.log
         /\ last' = [NoLast EXCEPT !.op = "Process", !.result = r.ret]
  /\ runs' = runs + 1
  /\ UNCHANGED <<table, nodes, stack>>

\* ~ASTNode_Internal deletes the children; ~ASTNode_Leaf deletes the Symbol
\* the leaf owns.
RECURSIVE Destroy(_, _)
RECURSIVE DestroyChildren(_, _, _)
DestroyChildren(n, st, i) ==
  IF i > Len(nodes[n].children) THEN st
  ELSE DestroyChildren(n, Destroy(nodes[n].children[i], st), i + 1)

Destroy(n, st) ==
  IF nodes[n].kind = "Leaf"
    THEN IF nodes[n].own THEN Delete(n, st, nodes[n].sym) ELSE st
    ELSE DestroyChildren(n, st, 1)

Teardown ==
  /\ err = NoErr
  /\ nodes # <<>>
  /\ stack = <<>>
  /\ runs >= 1
  /\ LET r == Destroy(Root, Start)
     IN  /\ sym' = r.sym
         /\ err' = r.err
         /\ log' = r.log
  /\ nodes' = <<>>
  /\ last' = [NoLast EXCEPT !.op = "Teardown"]
  /\ UNCHANGED <<table, nextSym, stack, hostEvents, runs>>

(***************************************************************************)
(* The evaluation phase: the declarations are done (a root scope with a    *)
(* numeric variable x, a function f of no arguments returning a constant,  *)
(* and a function g of two arguments returning their difference), the root *)
(* Block exists and has no statement yet.                                  *)
(***************************************************************************)
EvalInit ==
  /\ sym = <<Symbol("root", ScopeVal, Null),
             Symbol("x", NumVal(0), 1),
             Symbol("f", FunVal("const", 7), 1),
             Symbol("g", FunVal("sub", 0), 1)>>
  /\ table = (1 :> [x |-> 2, f |-> 3, g |-> 4])
  /\ nextSym = 5
  /\ nodes = <<Node("Block", "", <<>>, 1, FALSE)>>
  /\ stack = <<>>
  /\ hostEvents = <<>>
  /\ log = <<>>
  /\ err = NoErr
  /\ last = NoLast
  /\ runs = 0

Next ==
  \/ MakeLeaf
  \/ MakeLiteralLeaf
  \/ MakeMath1
  \/ MakeOp2
  \/ MakeAssign
  \/ MakeCall
  \/ MakeEvent
  \/ AddChild
  \/ ProcessRoot
  \/ Teardown

Spec == EvalInit /\ [][Next]_vars

(***************************************************************************)
(* Properties of the scope table.                                          *)
(***************************************************************************)
AddOps == {"AddStringVar", "AddValueVar", "AddScope", "AddFunction",
           "AddBuiltinFunction", "LinkVar", "LinkFuns"}

\* C1: a name declared in a scope is found there as exactly the declared
\* entry; declaring a name the scope already holds is a fatal error that
\* leaves the table as it was; no entry of any table is ever replaced.
C1_DeclareOnce ==
  [][ /\ \A s \in DOMAIN table : \A n \in DOMAIN table[s] :
           /\ s \in DOMAIN table'
           /\ n \in DOMAIN table'[s]
           /\ table'[s][n] = table[s][n]
      /\ last'.op \in AddOps =>
           IF Has(table[last'.scope], last'.name)
             THEN /\ err' = "assert"
                  /\ table' = table
             ELSE /\ err' = NoErr
                  /\ last'.result \notin DOMAIN sym
                  /\ sym'[last'.result].name = last'.name
                  /\ GetSymbol(table', last'.scope, last'.name) = last'.result
                  /\ LookupSymbol(sym', table', last'.scope, last'.name, FALSE)
                       = last'.result
    ]_vars

C1_Witness ==
  /\ last.op \in AddOps
  /\ err = "assert"
  /\ Has(table[last.scope], last.name)
  /\ \E s \in DOMAIN table : Cardinality(DOMAIN table[s]) = 2

\* The k-th enclosing scope of s (s itself for k = 0), Null past the root.
RECURSIVE Up(_, _)
Up(s, k) == IF k = 0 \/ s = Null THEN s ELSE Up(sym[s].scope, k - 1)

Declaring(s, name) ==
  {k \in 0..Cardinality(DOMAIN sym) : Up(s, k) # Null /\ Has(table[Up(s, k)], name)}

Nearest(s, name) ==
  LET k == CHOOSE k \in Declaring(s, name) : \A j \in Declaring(s, name) : k <= j
  IN  table[Up(s, k)][name]

\* C2: LookupSymbol returns the scope's own entry when it has one; otherwise,
\* when scanning, the entry of the nearest enclosing scope that declares the
\* name, however far up; otherwise the not-found sentinel, without failing.
C2_LookupNearest ==
  last.op = "LookupSymbol" =>
    /\ err = NoErr
    /\ last.result =
         IF 0 \in Declaring(last.scope, last.name)
           THEN table[last.scope][last.name]
           ELSE IF last.scan /\ Declaring(last.scope, last.name) # {}
                  THEN Nearest(last.scope, last.name)
                  ELSE Null

C2_Witness ==
  /\ last.op = "LookupSymbol"
  /\ last.scan
  /\ Declaring(last.scope, last.name) = {2}
  /\ last.result = table[Up(last.scope, 2)][last.name]
  /\ last.result # Null

\* Whether scope c is a deep copy of scope o: the same names, each mapped to
\* a different Symbol with the same content, nested scopes likewise.
RECURSIVE DeepCopy(_, _)
DeepCopy(o, c) ==
  /\ DOMAIN table[c] = DOMAIN table[o]
  /\ \A n \in DOMAIN table[o] :
       /\ table[c][n] # table[o][n]
       /\ sym[table[c][n]].name = sym[table[o][n]].name
       /\ sym[table[c][n]].val = sym[table[o][n]].val
       /\ IsScope(sym, table[o][n]) => DeepCopy(table[o][n], table[c][n])

\* C3: the clone of a scope has the same names as the original, each mapped
\* to a fresh clone of the original's entry, recursively.
C3_CloneIsDeep ==
  last.op = "Clone" => /\ last.result # last.scope
                       /\ DeepCopy(last.scope, last.result)

(***************************************************************************)
(* Reading the trace of the last evaluation.                               *)
(***************************************************************************)
At(ev, n) == {i \in DOMAIN log : log[i].ev = ev /\ log[i].node = n}

Returned(n) == At("exit", n) # {}

EnterOf(n) == CHOOSE i \in At("enter", n) : TRUE

ExitOf(n) == CHOOSE i \in At("exit", n) : TRUE

NodesOf(kind) == {n \in DOMAIN nodes : nodes[n].kind = kind}

Evaluated == last.op = "Process"

\* The value Symbol s held after step i, as the latest step up to i that
\* shows the value of s recorded it.
Shows(s, i) ==
  {j \in 1..i : log[j].s = s /\ log[j].ev \in {"exit", "copy", "alloc"}}

ValueAt(s, i) ==
  log[CHOOSE j \in Shows(s, i) : \A k \in Shows(s, i) : k <= j].val

\* Children 1 and 2 of n were processed one after the other, left first,
\* inside the processing of n.
LeftThenRight(n) ==
  LET c1 == nodes[n].children[1]
      c2 == nodes[n].children[2]
  IN  /\ Cardinality(At("enter", c1)) = 1
      /\ Cardinality(At("enter", c2)) = 1
      /\ EnterOf(n) < EnterOf(c1)
      /\ EnterOf(c1) < ExitOf(c1)
      /\ ExitOf(c1) < EnterOf(c2)
      /\ EnterOf(c2) < ExitOf(c2)
      /\ ExitOf(c2) < ExitOf(n)

\* C4: an Assign whose left child yields a non-temporary Symbol X returns X
\* itself (the Symbol a lookup of its name gives), as non-temporary as it
\* was, holding the value of the right-hand result in X's type; both
\* children are processed, left then right, and then CopyValue runs once.
C4_AssignReturnsLvalue ==
  Evaluated =>
    \A n \in NodesOf("Assign") :
      (Returned(n) /\ ~log[ExitOf(nodes[n].children[1])].temp) =>
        LET l == log[ExitOf(nodes[n].children[1])]
            r == log[ExitOf(nodes[n].children[2])]
            out == log[ExitOf(n)]
            copies == At("copy", n)
        IN  /\ LeftThenRight(n)
            /\ out.s = l.s
            /\ out.temp = l.temp
            /\ sym[l.s].name # "" =>
                 LookupSymbol(sym, table, sym[l.s].scope, sym[l.s].name, TRUE) = out.s
            /\ out.val = Coerce(r.val, l.val.type)
            /\ Cardinality(copies) = 1
            /\ \A i \in copies :
                 /\ ExitOf(nodes[n].children[2]) < i
                 /\ i < ExitOf(n)
                 /\ log[i].s = l.s
                 /\ log[i].arg = <<r.s>>

C4_Witness ==
  /\ Evaluated
  /\ err = NoErr
  /\ \E n \in NodesOf("Assign") :
       /\ Returned(n)
       /\ log[ExitOf(n)].s = table[1]["x"]
       /\ log[ExitOf(nodes[n].children[2])].temp
       /\ log[ExitOf(n)].val = NumVal(7)
       /\ sym[table[1]["x"]].val = NumVal(7)

\* C5: a binary operator node processes its left child, then its right
\* child, and returns a Symbol allocated by this node after both, temporary,
\* different from both inputs, holding the closure applied to the two
\* inputs' values coerced to the closure's argument types.
C5_Op2FreshResult ==
  Evaluated =>
    \A n \in NodesOf("Op2") :
      Returned(n) =>
        LET e2 == ExitOf(nodes[n].children[2])
            in1 == log[ExitOf(nodes[n].children[1])].s
            in2 == log[e2].s
            out == log[ExitOf(n)]
            type == ArgType(nodes[n].fun)
        IN  /\ LeftThenRight(n)
            /\ out.temp
            /\ out.s \notin {in1, in2}
            /\ \E a \in At("alloc", n) :
                 /\ log[a].s = out.s
                 /\ e2 < a
                 /\ a < ExitOf(n)
            /\ Cardinality(At("alloc", n)) = 1
            /\ out.val = Fun2(nodes[n].fun, Coerce(ValueAt(in1, e2), type),
                                            Coerce(ValueAt(in2, e2), type))

C5_Witness ==
  /\ Evaluated
  /\ err = NoErr
  /\ \E n \in NodesOf("Op2") :
       /\ Returned(n)
       /\ nodes[n].fun = "add"
       /\ log[ExitOf(nodes[n].children[1])].val = NumVal(3)
       /\ log[ExitOf(nodes[n].children[2])].val = NumVal(4)
       /\ log[ExitOf(n)].val = NumVal(7)
       /\ log[ExitOf(n)].temp

C5_WitnessCat ==
  /\ Evaluated
  /\ err = NoErr
  /\ \E n \in NodesOf("Op2") :
       /\ Returned(n)
       /\ nodes[n].fun = "cat"
       /\ log[ExitOf(nodes[n].children[1])].val = StrVal(<<"a">>)
       /\ log[ExitOf(nodes[n].children[2])].val = StrVal(<<"b">>)
       /\ log[ExitOf(n)].val = StrVal(<<"a", "b">>)

Allocated == {log[i].s : i \in {j \in DOMAIN log : log[j].ev = "alloc"}}

Releases == {i \in DOMAIN log : log[i].ev = "release"}

Range(f) == {f[i] : i \in DOMAIN f}

RECURSIVE Subtree(_)
Subtree(n) == {n} \cup UNION {Subtree(nodes[n].children[i]) : i \in DOMAIN nodes[n].children}

\* Children from..Len of n were each processed once, one after the other
\* in child order, inside the processing of n.
InOrderFrom(n, from) ==
  \A i \in from..Len(nodes[n].children) :
    /\ Cardinality(At("enter", nodes[n].children[i])) = 1
    /\ Returned(nodes[n].children[i])
    /\ EnterOf(n) < EnterOf(nodes[n].children[i])
    /\ i > from => ExitOf(nodes[n].children[i - 1]) < EnterOf(nodes[n].children[i])

\* The Symbols children 2..Len of n returned, in child order.
ArgsOf(n) ==
  [i \in 1..(Len(nodes[n].children) - 1) |-> log[ExitOf(nodes[n].children[i + 1])].s]

Setups == {i \in DOMAIN log : log[i].ev = "setup"}

\* C7: an Event node that has been processed called the host's setup
\* closure once, after processing children 2.. in order, with child 1 as
\* the action node and the Symbols children 2.. returned; no node of the
\* action subtree has been processed; the Event returned no result.
C7_EventDefersAction ==
  Evaluated =>
    /\ \A n \in NodesOf("Event") :
         Returned(n) =>
           /\ InOrderFrom(n, 2)
           /\ Cardinality(At("setup", n)) = 1
           /\ \A u \in At("setup", n) :
                /\ \A i \in 2..Len(nodes[n].children) : ExitOf(nodes[n].children[i]) < u
                /\ EnterOf(n) < u
                /\ u < ExitOf(n)
                /\ log[u].s = nodes[n].children[1]
                /\ log[u].arg = ArgsOf(n)
           /\ \A d \in Subtree(nodes[n].children[1]) : At("enter", d) = {}
           /\ log[ExitOf(n)].s = Null
    /\ err = NoErr =>
         /\ Len(hostEvents)
              = runs * Cardinality(NodesOf("Event") \cap Range(nodes[Root].children))
         /\ \A n \in NodesOf("Event") \cap Range(nodes[Root].children) :
              \E i \in DOMAIN hostEvents :
                /\ i > Len(hostEvents) - Cardinality(Setups)
                /\ hostEvents[i] = [action |-> nodes[n].children[1], args |-> ArgsOf(n)]

C7_Witness ==
  /\ Evaluated
  /\ err = NoErr
  /\ runs = 1
  /\ \E n \in NodesOf("Event") :
       /\ Returned(n)
       /\ Len(nodes[n].children) = 2
       /\ nodes[nodes[n].children[1]].kind = "Call"
       /\ hostEvents = <<[action |-> nodes[n].children[1], args |-> ArgsOf(n)]>>
       /\ sym[ArgsOf(n)[1]].val = NumVal(3)
       /\ sym[ArgsOf(n)[1]].live

\* C8: a Call node processes the callee child, then the other children in
\* order, calls the callee once with the Symbols those children returned,
\* in child order, and returns the Symbol the callee made, as temporary as
\* the callee made it; a function of no arguments bound to a closure
\* returning the constant K gives a temporary numeric Symbol of value K.
C8_CallReturnsCalleeResult ==
  Evaluated =>
    \A n \in NodesOf("Call") :
      Returned(n) =>
        LET out == log[ExitOf(n)]
        IN  /\ InOrderFrom(n, 1)
            /\ Cardinality(At("call", n)) = 1
            /\ \A c \in At("call", n) :
                 /\ \A i \in DOMAIN nodes[n].children : ExitOf(nodes[n].children[i]) < c
                 /\ c < ExitOf(n)
                 /\ log[c].s = log[ExitOf(nodes[n].children[1])].s
                 /\ log[c].arg = ArgsOf(n)
                 /\ Cardinality(At("alloc", n)) = 1
                 /\ \A a \in At("alloc", n) :
                      /\ c < a
                      /\ out.s = log[a].s
                      /\ out.temp = log[a].temp
                      /\ out.val = log[a].val
                 /\ log[c].val.fn = "const" =>
                      /\ log[c].arg = <<>>
                      /\ out.temp
                      /\ out.val = NumVal(log[c].val.num)
                 /\ log[c].val.fn = "sub" =>
                      out.val = NumVal(Coerce(ValueAt(log[c].arg[1], c), "num").num
                                       - Coerce(ValueAt(log[c].arg[2], c), "num").num)

C8_Witness ==
  /\ Evaluated
  /\ \E n \in NodesOf("Call") :
       /\ Returned(n)
       /\ Len(nodes[n].children) = 1
       /\ sym[nodes[nodes[n].children[1]].sym].val = FunVal("const", 7)
       /\ log[ExitOf(n)].val = NumVal(7)
       /\ log[ExitOf(n)].temp

Uses(e, s) ==
  \/ e.ev \in {"read", "copy", "release", "call", "exit"} /\ e.s = s
  \/ e.ev \in {"copy", "call", "setup"} /\ s \in Range(e.arg)

Attached ==
  UNION {Range(table[t]) : t \in DOMAIN table}
    \cup {nodes[n].sym : n \in NodesOf("Leaf")}

\* C9: no Process releases a Symbol that is not temporary, no Symbol is
\* released twice, no Symbol is used after its release, and the entries of
\* the scopes and the Symbols the leaves wrap stay alive while the tree is.
C9_OwnershipDiscipline ==
  /\ err # "ub"
  /\ nodes # <<>> => \A s \in Attached : sym[s].live /\ ~sym[s].temp
  /\ Evaluated =>
       \A i \in Releases :
         /\ log[i].temp
         /\ log[i].s \notin Attached
         /\ \A j \in DOMAIN log : j > i => ~Uses(log[j], log[i].s)

C9_Witness ==
  /\ Evaluated
  /\ err = NoErr
  /\ \E n \in NodesOf("Math1") :
       /\ Returned(n)
       /\ nodes[nodes[n].children[1]].kind = "Assign"
       /\ \E i \in At("read", n) : ~log[i].temp
  /\ Cardinality(Releases) >= 1

\* C10, in a state: a leaf's Symbol is alive and not temporary as long as
\* the tree is; at most one leaf owns a given Symbol; a leaf that was
\* processed returned its Symbol at once, without any allocation.
LeafInv ==
  /\ \A n \in NodesOf("Leaf") :
       /\ sym[nodes[n].sym].live
       /\ ~sym[nodes[n].sym].temp
       /\ \A m \in NodesOf("Leaf") :
            (nodes[m].sym = nodes[n].sym /\ nodes[m].own /\ nodes[n].own) => m = n
  /\ Evaluated =>
       \A n \in NodesOf("Leaf") :
         /\ At("alloc", n) = {}
         /\ \A i \in At("enter", n) :
              /\ i + 1 \in DOMAIN log
              /\ log[i + 1].ev = "exit"
              /\ log[i + 1].node = n
              /\ log[i + 1].s = nodes[n].sym
              /\ ~log[i + 1].temp

\* C10, in a step: a new leaf owns its Symbol exactly when the Symbol was
\* temporary when the leaf was made (a literal is made temporary just
\* before), and leaves it non-temporary; ownership never changes; tearing
\* the tree down releases exactly the Symbols some leaf owns.
LeafStep ==
  /\ (Len(nodes') = Len(nodes) + 1 /\ nodes'[Len(nodes')].kind = "Leaf") =>
       LET s == nodes'[Len(nodes')].sym
       IN  /\ nodes'[Len(nodes')].own = (IF s \in DOMAIN sym THEN sym[s].temp ELSE TRUE)
           /\ ~sym'[s].temp
  /\ nodes' # <<>> =>
       \A n \in DOMAIN nodes : /\ nodes'[n].own = nodes[n].own
                               /\ nodes'[n].sym = nodes[n].sym
  /\ nodes' = <<>> =>
       \A s \in DOMAIN sym :
         (sym[s].live /\ ~sym'[s].live)
           <=> (\E n \in NodesOf("Leaf") : nodes[n].own /\ nodes[n].sym = s)

\* C10: a Leaf owns its Symbol, and releases it when destroyed, exactly
\* when the Symbol was temporary as the Leaf was constructed; from then on
\* the Symbol is never temporary, so a second Leaf on it does not own it;
\* Leaf.Process returns the Symbol as it is and allocates nothing, and the
\* Symbol outlives every evaluation of the tree.
C10_LeafOwnsOnce == [][LeafStep /\ LeafInv']_vars

C10_Witness ==
  /\ Evaluated
  /\ err = NoErr
  /\ runs = 2
  /\ \E n \in NodesOf("Leaf"), m \in NodesOf("Leaf") :
       /\ nodes[n].sym = nodes[m].sym
       /\ nodes[n].own
       /\ ~nodes[m].own
       /\ Returned(n)
       /\ Returned(m)
       /\ sym[nodes[n].sym].live

CopiesTo(lg, s) == {i \in DOMAIN lg : lg[i].ev = "copy" /\ lg[i].s = s}

\* Step i of lg is a copy made by an Assign node into the Symbol its left
\* child returned.
ByAssignLeft(lg, i) ==
  /\ nodes[lg[i].node].kind = "Assign"
  /\ \E j \in 1..(i - 1) :
       /\ lg[j].ev = "exit"
       /\ lg[j].node = nodes[lg[i].node].children[1]
       /\ lg[j].s = lg[i].s

\* One evaluation of the tree leaves every table as it was, and every entry
\* as it was but for its value, which is the one the last Assign copied
\* into it, if any did.
ProcessStep ==
  /\ table' = table
  /\ \A t \in DOMAIN table : \A name \in DOMAIN table[t] :
       LET s == table[t][name]
           cs == CopiesTo(log', s)
       IN  /\ [sym'[s] EXCEPT !.val = sym[s].val] = sym[s]
           /\ \A i \in cs : ByAssignLeft(log', i)
           /\ sym'[s].val = IF cs = {} THEN sym[s].val
                             ELSE log'[CHOOSE i \in cs : \A k \in cs : k <= i].val

\* C11: across an evaluation, the names in every scope's table and the
\* Symbol each name maps to are the same before and after, every entry
\* keeps its name, scope, flags and liveness, and the only change to an
\* entry is its value, written by an Assign whose left side returned it.
C11_ScopeStructureUnchanged == [][runs' = runs + 1 => ProcessStep]_vars

C11_Witness ==
  /\ Evaluated
  /\ err = NoErr
  /\ runs = 1
  /\ DOMAIN table[1] = {"x", "f", "g"}
  /\ sym[table[1]["x"]].val = Fun1("neg", NumVal(3))
  /\ \E n \in NodesOf("Assign") :
       /\ Returned(n)
       /\ nodes[nodes[n].children[2]].kind = "Math1"
       /\ log[ExitOf(n)].s = table[1]["x"]
  /\ Allocated # {}

\* C12: an Event node that has been processed released nothing itself and
\* returned no result; none of the Symbols its argument children returned
\* has been released by the time the Block has returned, temporary or not:
\* each is alive, a temporary one still temporary, and held by the host.
C12_EventKeepsArguments ==
  Evaluated =>
    \A n \in NodesOf("Event") :
      Returned(n) =>
        /\ \A i \in Releases : log[i].node # n
        /\ log[ExitOf(n)].s = Null
        /\ \A k \in DOMAIN ArgsOf(n) :
             LET a == ArgsOf(n)[k]
             IN  /\ \A i \in Releases : log[i].s # a
                 /\ sym[a].live
                 /\ a \in Allocated => sym[a].temp
                 /\ \E e \in Range(hostEvents) : a \in Range(e.args)

C12_Witness ==
  /\ Evaluated
  /\ err = NoErr
  /\ Returned(Root)
  /\ \E n \in NodesOf("Event") :
       /\ Returned(n)
       /\ Len(nodes[n].children) = 2
       /\ nodes[nodes[n].children[2]].kind = "Math1"
       /\ ArgsOf(n)[1] \in Allocated
       /\ sym[ArgsOf(n)[1]].temp
       /\ sym[ArgsOf(n)[1]].live
       /\ sym[ArgsOf(n)[1]].val = Fun1("neg", NumVal(4))
       /\ Releases = {}

====
